---- MODULE Spec2Model ----
(***************************************************************************)
(* Model of the Dopamine Reset Coach prototype                             *)
(* (src/src/components/DopamineResetCoachPrototype.tsx).                   *)
(*                                                                         *)
(* Representation choices:                                                 *)
(*  - A JavaScript string that the code compares or parses (a date) is a   *)
(*    sequence of UTF-16 code units, so that `a.date < b.date` is the      *)
(*    lexicographic comparison JavaScript performs.  Strings that are only *)
(*    stored or compared for equality (labels, notes, task texts) are TLA+ *)
(*    strings.                                                             *)
(*  - sleepHours is held in tenths of an hour (the slider's step is 0.1),  *)
(*    so 7.5 h is 75 and 7 h is 70.  All other numbers are integers.       *)
(*  - The scoring arithmetic is exact: computeDLS works in twentieths      *)
(*    ((s/10)*3 = 6s/20, (c/50)*2.5 = c/20) and computeNEI in fractions    *)
(*    num/den, and Math.round is floor(x + 1/2).                           *)
(*  - One action is one event handler together with the re-render and the  *)
(*    effects React runs before the next event is handled.                 *)
(***************************************************************************)
EXTENDS Integers, Sequences, FiniteSets, TLC

VARIABLES
    mounted,        \* the component has been constructed (useState/useMemo ran)
    stored,         \* localStorage item under STORAGE_KEY
    history,        \* useState<Checkin[]>
    planDays,       \* useState<number>
    strictness,     \* useState<Strictness>
    trackedMacros,  \* useState<Record<MacroKey, boolean>>
    draft,          \* useState<Checkin | null>
    dls,            \* useMemo: computeDLS(active) or 0
    nei,            \* useMemo: computeNEI(history)
    tasks,          \* useMemo: coachTasks(active, dayNumber || 1, strictness) or []
    edits           \* number of form and settings inputs so far (bounds the run)

vars == <<mounted, stored, history, planDays, strictness, trackedMacros,
          draft, dls, nei, tasks, edits>>

(***************************************************************************)
(* Bounds of the model                                                     *)
(***************************************************************************)
MaxHistory == 4
MaxEdits == 1
MaxTrendLen == 8
MaxLoadItems == 6
MaxDayNumber == 42

(***************************************************************************)
(* Helpers                                                                 *)
(***************************************************************************)
Null == [isNull |-> TRUE]

Max2(a, b) == IF a >= b THEN a ELSE b
Min2(a, b) == IF a <= b THEN a ELSE b

\* Mutant of clamp: the upper bound is not applied.
clampNoUpper(n, min, max) == Max2(min, n)

clamp(n, min, max) == Max2(min, Min2(max, n))

\* Mutant of MathRound: Math.floor.
MathFloor(num, den) == num \div den

\* Math.round of the fraction num/den (den > 0): floor(num/den + 1/2).
MathRound(num, den) == (2 * num + den) \div (2 * den)

\* Strings as code units: "0".."9" are 48..57 and "-" is 45.
Digit(n) == 48 + n
Dash == <<45>>

RECURSIVE DecimalString(_)
DecimalString(n) ==
    IF n < 10 THEN <<Digit(n)>>
    ELSE DecimalString(n \div 10) \o <<Digit(n % 10)>>

\* String(n).padStart(2, "0")
PadStart2(n) == IF n < 10 THEN <<Digit(0)>> \o DecimalString(n) ELSE DecimalString(n)

\* JavaScript's `a < b` on strings: lexicographic by code unit, a proper
\* prefix being smaller.
RECURSIVE StrLess(_, _)
StrLess(a, b) ==
    IF b = <<>> THEN FALSE
    ELSE IF a = <<>> THEN TRUE
    ELSE IF Head(a) # Head(b) THEN Head(a) < Head(b)
    ELSE StrLess(Tail(a), Tail(b))

IsLeapYear(y) == (y % 4 = 0 /\ y % 100 # 0) \/ y % 400 = 0

DaysInMonth(y, m) ==
    IF m = 2 THEN (IF IsLeapYear(y) THEN 29 ELSE 28)
    ELSE IF m \in {4, 6, 9, 11} THEN 30
    ELSE 31

\* A Date at local midnight is [y, m, d].
yyyyMmDd(d) ==
    DecimalString(d.y) \o Dash \o PadStart2(d.m) \o Dash \o PadStart2(d.d)

RECURSIVE DecimalValue(_)
DecimalValue(s) ==
    IF s = <<>> THEN 0
    ELSE 10 * DecimalValue(SubSeq(s, 1, Len(s) - 1)) + (s[Len(s)] - 48)

IsDigits(s) == \A i \in 1..Len(s) : s[i] \in 48..57

\* The strings `new Date(s + "T00:00:00")` reads as the ISO local date-time
\* form YYYY-MM-DDT00:00:00 of an existing calendar day.  Any other string
\* is parsed in an implementation-defined way (addDaysOutcomes).
IsIsoDate(s) ==
    /\ Len(s) = 10
    /\ s[5] = 45 /\ s[8] = 45
    /\ IsDigits(SubSeq(s, 1, 4)) /\ IsDigits(SubSeq(s, 6, 7)) /\ IsDigits(SubSeq(s, 9, 10))
    /\ DecimalValue(SubSeq(s, 6, 7)) \in 1..12
    /\ DecimalValue(SubSeq(s, 9, 10)) \in
           1..DaysInMonth(DecimalValue(SubSeq(s, 1, 4)), DecimalValue(SubSeq(s, 6, 7)))

ParseLocalDate(s) ==
    [y |-> DecimalValue(SubSeq(s, 1, 4)),
     m |-> DecimalValue(SubSeq(s, 6, 7)),
     d |-> DecimalValue(SubSeq(s, 9, 10))]

\* dt.setDate(n) for n past the end of the month rolls into the next months.
RECURSIVE SetDate(_, _)
SetDate(dt, n) ==
    IF n <= DaysInMonth(dt.y, dt.m) THEN [dt EXCEPT !.d = n]
    ELSE SetDate([y |-> IF dt.m = 12 THEN dt.y + 1 ELSE dt.y,
                  m |-> IF dt.m = 12 THEN 1 ELSE dt.m + 1,
                  d |-> 1],
                 n - DaysInMonth(dt.y, dt.m))

addDays(dateStr, days) ==
    LET dt == ParseLocalDate(dateStr)
    IN  yyyyMmDd(SetDate(dt, dt.d + days))

\* yyyyMmDd of the Invalid Date: "NaN-NaN-NaN".
InvalidDateText == <<78, 97, 78, 45, 78, 97, 78, 45, 78, 97, 78>>

\* A date text with a five-digit year, such as addDays yields after
\* 9999-12-31.
IsLongYearDate(s) ==
    /\ Len(s) = 11
    /\ s[6] = 45 /\ s[9] = 45
    /\ IsDigits(SubSeq(s, 1, 5)) /\ IsDigits(SubSeq(s, 7, 8)) /\ IsDigits(SubSeq(s, 10, 11))
    /\ DecimalValue(SubSeq(s, 7, 8)) \in 1..12
    /\ DecimalValue(SubSeq(s, 10, 11)) \in
           1..DaysInMonth(DecimalValue(SubSeq(s, 1, 5)), DecimalValue(SubSeq(s, 7, 8)))

ParseLongYearDate(s) ==
    [y |-> DecimalValue(SubSeq(s, 1, 5)),
     m |-> DecimalValue(SubSeq(s, 7, 8)),
     d |-> DecimalValue(SubSeq(s, 10, 11))]

\* The results addDays can have.  A text in the date-time format of
\* ECMAScript (four-digit year) is parsed as that local day.  For any other
\* text new Date(...) is implementation-defined: the engine answers the
\* Invalid Date, whose fields are NaN, or applies its own heuristics, which
\* for a five-digit year can read the day that is meant.
addDaysOutcomes(dateStr, days) ==
    IF IsIsoDate(dateStr) THEN {addDays(dateStr, days)}
    ELSE IF IsLongYearDate(dateStr)
    THEN LET dt == ParseLongYearDate(dateStr)
         IN  {InvalidDateText, yyyyMmDd(SetDate(dt, dt.d + days))}
    ELSE {InvalidDateText}

toLowerCase(s) ==
    CASE s = "Tiktok" -> "tiktok"
      [] s = "Sugar" -> "sugar"
      [] s = "Nicotine" -> "nicotine"
      [] s = "Gaming" -> "gaming"
      [] s = "News" -> "news"
      [] s = "Shorts" -> "shorts"
      [] s = "Snacks" -> "snacks"
      [] OTHER -> s

titleCase(s) ==
    CASE s = "tiktok" -> "Tiktok"
      [] s = "sugar" -> "Sugar"
      [] OTHER -> s

\* list.findIndex(x => x.label.toLowerCase() === label.toLowerCase()), 0 for -1
findToggle(list, label) ==
    LET hits == {i \in 1..Len(list) : toLowerCase(list[i].label) = toLowerCase(label)}
    IN  IF hits = {} THEN 0 ELSE CHOOSE i \in hits : \A j \in hits : i <= j

upsertToggle(list, label, value) ==
    LET idx == findToggle(list, label)
    IN  IF idx = 0 THEN Append(list, [label |-> label, value |-> value])
        ELSE [list EXCEPT ![idx] = [@ EXCEPT !.value = value]]

RECURSIVE removeToggle(_, _)
removeToggle(list, label) ==
    IF list = <<>> THEN <<>>
    ELSE IF toLowerCase(Head(list).label) # toLowerCase(label)
         THEN <<Head(list)>> \o removeToggle(Tail(list), label)
         ELSE removeToggle(Tail(list), label)

(***************************************************************************)
(* Types                                                                   *)
(***************************************************************************)
Strictness == {"Light", "Standard", "Hard"}
MacroKey == {"calories", "protein", "carbs", "fat"}
CORE_VIRTUE_KEYS == {"study", "gym", "meditate"}

makeDefaultCheckin(date) ==
    [date |-> date,
     loadItems |-> <<>>,
     virtues |-> [study |-> FALSE, gym |-> FALSE, meditate |-> FALSE],
     sleepHours |-> 75,
     sleepQuality |-> 7,
     caffeineMg |-> 0,
     socialMinutes |-> 0,
     workout |-> FALSE,
     mood |-> 7,
     energy |-> 7,
     junkFood |-> FALSE,
     notes |-> "",
     calories |-> 0,
     proteinG |-> 0,
     carbsG |-> 0,
     fatG |-> 0]

(***************************************************************************)
(* Scoring                                                                 *)
(***************************************************************************)
virtuesCount(v) ==
    (IF v.study THEN 1 ELSE 0) + (IF v.gym THEN 1 ELSE 0) + (IF v.meditate THEN 1 ELSE 0)

\* list.filter(x => x.value).length
RECURSIVE countOn(_)
countOn(list) ==
    IF list = <<>> THEN 0
    ELSE (IF Head(list).value THEN 1 ELSE 0) + countOn(Tail(list))

\* list.some(x => x.value)
someOn(list) == \E i \in 1..Len(list) : list[i].value

\* Mutant of computeDLS: the virtues are added to the load.
computeDLSVirtuesAdded(d) ==
    LET social == clamp(6 * d.socialMinutes, 0, 20 * 30)
        caffeine == clamp(d.caffeineMg, 0, 20 * 20)
        junk == IF d.junkFood THEN 20 * 10 ELSE 0
        extraLoad == 20 * clamp(countOn(d.loadItems) * 6, 0, 30)
        virtues == 20 * clamp(virtuesCount(d.virtues) * 3, 0, 12)
        workout == IF d.workout THEN 20 * (-10) ELSE 0
        goodSleep == IF d.sleepHours >= 75 THEN 20 * (-10) ELSE 0
        raw == social + caffeine + junk + extraLoad + workout + goodSleep + virtues
    IN  clamp(MathRound(raw, 20), 0, 100)

\* Mutant of computeDLS: the contribution of the load items is not capped.
computeDLSLoadUncapped(d) ==
    LET social == clamp(6 * d.socialMinutes, 0, 20 * 30)
        caffeine == clamp(d.caffeineMg, 0, 20 * 20)
        junk == IF d.junkFood THEN 20 * 10 ELSE 0
        loadOn == countOn(d.loadItems)
        extraLoad == 20 * loadOn * 6
        virtues == 20 * clamp(virtuesCount(d.virtues) * 3, 0, 12)
        workout == IF d.workout THEN 20 * (-10) ELSE 0
        goodSleep == IF d.sleepHours >= 75 THEN 20 * (-10) ELSE 0
        raw == social + caffeine + junk + extraLoad + workout + goodSleep - virtues
    IN  clamp(MathRound(raw, 20), 0, 100)

\* Dopamine Load Score.  The terms are in twentieths of a point.
computeDLS(d) ==
    LET social == clamp(6 * d.socialMinutes, 0, 20 * 30)
        caffeine == clamp(d.caffeineMg, 0, 20 * 20)
        junk == IF d.junkFood THEN 20 * 10 ELSE 0
        loadOn == countOn(d.loadItems)
        extraLoad == 20 * clamp(loadOn * 6, 0, 30)
        virtues == 20 * clamp(virtuesCount(d.virtues) * 3, 0, 12)
        workout == IF d.workout THEN 20 * (-10) ELSE 0
        goodSleep == IF d.sleepHours >= 75 THEN 20 * (-10) ELSE 0
        raw == social + caffeine + junk + extraLoad + workout + goodSleep - virtues
    IN  clamp(MathRound(raw, 20), 0, 100)

\* Mutant of sliceLast: the whole history is kept.
sliceLastAll(hist, n) == hist

\* history.slice(-n)
sliceLast(hist, n) ==
    IF Len(hist) <= n THEN hist ELSE SubSeq(hist, Len(hist) - n + 1, Len(hist))

RECURSIVE sumEnergy(_)
sumEnergy(hist) == IF hist = <<>> THEN 0 ELSE Head(hist).energy + sumEnergy(Tail(hist))

RECURSIVE sumSleep(_)
sumSleep(hist) == IF hist = <<>> THEN 0 ELSE Head(hist).sleepHours + sumSleep(Tail(hist))

\* Natural Energy Index.  avgEnergy * 10 is 10 * sumEnergy / n, so the score
\* is the fraction (10 * sumEnergy + n * adjustments) / n; avgSleep >= 7.5 is
\* sumSleep (in tenths) >= 75 * n.
computeNEI(hist) ==
    LET last7 == sliceLast(hist, 7)
        n == Len(last7)
        loadDays == Cardinality({i \in 1..n : someOn(last7[i].loadItems)})
        virtueDays == Cardinality({i \in 1..n : virtuesCount(last7[i].virtues) >= 1})
        score0 == 10 * sumEnergy(last7)
        score1 == IF sumSleep(last7) >= 75 * n THEN score0 + 5 * n ELSE score0
        score2 == IF loadDays >= 3 THEN score1 - 8 * n ELSE score1
        score3 == IF virtueDays >= 4 THEN score2 + 6 * n ELSE score2
    IN  IF n = 0 THEN 50 ELSE clamp(MathRound(score3, n), 0, 100)

(***************************************************************************)
(* Coach tasks                                                             *)
(***************************************************************************)
CoachTask(level, text, why) == [level |-> level, text |-> text, why |-> why]

EasyEarly == CoachTask("Easy", "5-minute grounding walk (no phone).",
    "Early resets succeed through tiny stable habits, not intensity.")
EasyMid == CoachTask("Easy", "Set a 60-minute stimulus-free focus block.",
    "Mid-phase: extend clarity windows gradually.")
EasyLate == CoachTask("Easy", "Plan tomorrow's top 3 in 90 seconds.",
    "Late-phase: optimize momentum, not restriction.")
MediumSleep == CoachTask("Medium", "Lights-out time tonight + 20-minute wind-down.",
    "Sleep debt amplifies cravings and worsens baseline stability.")
MediumCaffeine == CoachTask("Medium", "Cap caffeine by 2PM; swap one dose for water.",
    "Caffeine can mask fatigue and distort natural calibration.")
MediumMove == CoachTask("Medium", "2-3 sets of light movement (push-ups or squats).",
    "Light training boosts dopamine tone without spiking it.")
HardDetox == CoachTask("Hard", "Full evening detox: no social media after 8PM.",
    "High-load days benefit most from removing high-density stimuli.")
HardRecovery == CoachTask("Hard", "Recovery protocol: 20-min walk + protein + early bed.",
    "A structured rebound stabilizes the next 48 hours.")
HardEnvironment == CoachTask("Hard", "Phone out of bedroom + no screens final 45 minutes.",
    "Hard mode uses environment control to maximize consistency.")
HardLate == CoachTask("Hard", "24-hour low-stimulus cycle (no shortform content).",
    "Late-phase: deepen discipline with bigger resets.")
HardDefault == CoachTask("Hard", "No phone in bed tonight.",
    "Prevents unconscious dopamine loops at night.")

\* Mutant of coachTasks: the two Medium conditions are separate ifs.
coachTasksTwoIfs(today, dayNumber, strict) ==
    LET easy == IF dayNumber <= 10 THEN EasyEarly
                ELSE IF ~(dayNumber > 40) THEN EasyMid
                ELSE EasyLate
        medium == (IF today.sleepHours < 70 THEN <<MediumSleep>> ELSE <<>>)
                  \o (IF today.caffeineMg > 200 THEN <<MediumCaffeine>> ELSE <<>>)
                  \o (IF today.sleepHours >= 70 /\ today.caffeineMg <= 200
                      THEN <<MediumMove>> ELSE <<>>)
        hard == IF computeDLS(today) > 70 THEN HardDetox
                ELSE IF someOn(today.loadItems) THEN HardRecovery
                ELSE IF strict = "Hard" THEN HardEnvironment
                ELSE IF dayNumber > 40 THEN HardLate
                ELSE HardDefault
    IN  SubSeq(<<easy>> \o medium \o <<hard>>, 1, 3)

\* Mutant of coachTasks: the late phase starts at day 40.
coachTasksLateAt40(today, dayNumber, strict) ==
    LET early == dayNumber <= 10
        late == dayNumber >= 40
        easy == IF early THEN EasyEarly
                ELSE IF ~late THEN EasyMid
                ELSE EasyLate
        medium == IF today.sleepHours < 70 THEN MediumSleep
                  ELSE IF today.caffeineMg > 200 THEN MediumCaffeine
                  ELSE MediumMove
        hard == IF computeDLS(today) > 70 THEN HardDetox
                ELSE IF someOn(today.loadItems) THEN HardRecovery
                ELSE IF strict = "Hard" THEN HardEnvironment
                ELSE IF late THEN HardLate
                ELSE HardDefault
    IN  <<easy, medium, hard>>

\* Mutant of coachTasks: the late-phase task is tried before hard mode.
coachTasksLateFirst(today, dayNumber, strict) ==
    LET early == dayNumber <= 10
        late == dayNumber > 40
        easy == IF early THEN EasyEarly
                ELSE IF ~late THEN EasyMid
                ELSE EasyLate
        medium == IF today.sleepHours < 70 THEN MediumSleep
                  ELSE IF today.caffeineMg > 200 THEN MediumCaffeine
                  ELSE MediumMove
        hard == IF computeDLS(today) > 70 THEN HardDetox
                ELSE IF someOn(today.loadItems) THEN HardRecovery
                ELSE IF late THEN HardLate
                ELSE IF strict = "Hard" THEN HardEnvironment
                ELSE HardDefault
    IN  <<easy, medium, hard>>

\* Mutant of coachTasks: the caffeine condition is tested before the sleep
\* condition.
coachTasksCaffeineFirst(today, dayNumber, strict) ==
    LET score == computeDLS(today)
        early == dayNumber <= 10
        late == dayNumber > 40
        easy == IF early THEN EasyEarly
                ELSE IF ~late THEN EasyMid
                ELSE EasyLate
        medium == IF today.caffeineMg > 200 THEN MediumCaffeine
                  ELSE IF today.sleepHours < 70 THEN MediumSleep
                  ELSE MediumMove
        anyLoad == someOn(today.loadItems)
        hard == IF score > 70 THEN HardDetox
                ELSE IF anyLoad THEN HardRecovery
                ELSE IF strict = "Hard" THEN HardEnvironment
                ELSE IF late THEN HardLate
                ELSE HardDefault
    IN  SubSeq(<<easy, medium, hard>>, 1, 3)

\* Mutant of coachTasks: the load items are tested before the DLS.
coachTasksLoadFirst(today, dayNumber, strict) ==
    LET score == computeDLS(today)
        early == dayNumber <= 10
        late == dayNumber > 40
        easy == IF early THEN EasyEarly
                ELSE IF ~late THEN EasyMid
                ELSE EasyLate
        medium == IF today.sleepHours < 70 THEN MediumSleep
                  ELSE IF today.caffeineMg > 200 THEN MediumCaffeine
                  ELSE MediumMove
        anyLoad == someOn(today.loadItems)
        hard == IF anyLoad THEN HardRecovery
                ELSE IF score > 70 THEN HardDetox
                ELSE IF strict = "Hard" THEN HardEnvironment
                ELSE IF late THEN HardLate
                ELSE HardDefault
    IN  SubSeq(<<easy, medium, hard>>, 1, 3)

coachTasks(today, dayNumber, strict) ==
    LET score == computeDLS(today)
        early == dayNumber <= 10
        late == dayNumber > 40
        easy == IF early THEN EasyEarly
                ELSE IF ~late THEN EasyMid
                ELSE EasyLate
        medium == IF today.sleepHours < 70 THEN MediumSleep
                  ELSE IF today.caffeineMg > 200 THEN MediumCaffeine
                  ELSE MediumMove
        anyLoad == someOn(today.loadItems)
        hard == IF score > 70 THEN HardDetox
                ELSE IF anyLoad THEN HardRecovery
                ELSE IF strict = "Hard" THEN HardEnvironment
                ELSE IF late THEN HardLate
                ELSE HardDefault
    IN  SubSeq(<<easy, medium, hard>>, 1, 3)

(***************************************************************************)
(* Local storage                                                           *)
(***************************************************************************)
\* localStorage.getItem(STORAGE_KEY): no item, a text that is not JSON, or the
\* JSON text of a value.
NoItem == [present |-> FALSE]
NotJson == [present |-> TRUE, json |-> FALSE]

JSONstringify(v) == [present |-> TRUE, json |-> TRUE, value |-> v]

safeParse(s) ==
    IF ~s.present THEN Null
    ELSE IF s.json THEN s.value
    ELSE Null

\* Mutant of PersistedState: the payload also carries the NEI.
PersistedStateWithNEI(h, p, st, m) ==
    [history |-> h, planDays |-> p, strictness |-> st, trackedMacros |-> m,
     nei |-> computeNEI(h)]

PersistedState(h, p, st, m) ==
    [history |-> h, planDays |-> p, strictness |-> st, trackedMacros |-> m]

DEFAULT_MACROS == [calories |-> TRUE, protein |-> TRUE, carbs |-> FALSE, fat |-> FALSE]

\* saved?.field ?? fallback
orDefault(saved, field, fallback) ==
    IF saved = Null THEN fallback
    ELSE IF field \in DOMAIN saved THEN saved[field]
    ELSE fallback

\* Mutant of initial: the fallback plan length is 30 days.
initialPlan30(item) ==
    LET saved == safeParse(item)
    IN  [history |-> orDefault(saved, "history", <<>>),
         planDays |-> orDefault(saved, "planDays", 30),
         strictness |-> orDefault(saved, "strictness", "Standard"),
         trackedMacros |-> orDefault(saved, "trackedMacros", DEFAULT_MACROS)]

initial(item) ==
    LET saved == safeParse(item)
    IN  [history |-> orDefault(saved, "history", <<>>),
         planDays |-> orDefault(saved, "planDays", 100),
         strictness |-> orDefault(saved, "strictness", "Standard"),
         trackedMacros |-> orDefault(saved, "trackedMacros", DEFAULT_MACROS)]

(***************************************************************************)
(* Derived values of a render                                              *)
(***************************************************************************)
dayNumber == Len(history)

activeOf(h, dr) ==
    IF dr # Null THEN dr
    ELSE IF Len(h) = 0 THEN Null
    ELSE h[Len(h)]

active == activeOf(history, draft)

\* The useMemo values of the render that follows a state change.
Render(h, dr, st) ==
    LET act == activeOf(h, dr)
    IN  /\ dls' = (IF act # Null THEN computeDLS(act) ELSE 0)
        /\ nei' = computeNEI(h)
        /\ tasks' = (IF act # Null
                     THEN coachTasks(act, IF Len(h) = 0 THEN 1 ELSE Len(h), st)
                     ELSE <<>>)

\* Mutant of persistEffect: the payload is built from the values of the
\* render before the update.
persistEffectStale(changed, item, h, p, st, m) ==
    IF changed
    THEN JSONstringify(PersistedState(history, planDays, strictness, trackedMacros))
    ELSE item

\* useEffect(..., [history, planDays, strictness, trackedMacros]): after the
\* render, when one of the dependencies is a new value (Object.is), the
\* payload is written; `item` is what the handler left in storage.
persistEffect(changed, item, h, p, st, m) ==
    IF changed THEN JSONstringify(PersistedState(h, p, st, m)) ELSE item

(***************************************************************************)
(* Construction                                                            *)
(***************************************************************************)
\* useMemo(initial), the useState initialisers, the first render and the
\* effects of the first render (the persist effect always runs then).
Construct ==
    LET init == initial(stored)
    IN  /\ history' = init.history
        /\ planDays' = init.planDays
        /\ strictness' = init.strictness
        /\ trackedMacros' = init.trackedMacros
        /\ draft' = Null
        /\ stored' = persistEffect(TRUE, stored, init.history, init.planDays,
                                   init.strictness, init.trackedMacros)
        /\ Render(init.history, Null, init.strictness)

Mount ==
    /\ ~mounted
    /\ mounted' = TRUE
    /\ Construct
    /\ UNCHANGED edits

\* The page is loaded again: the component is constructed from storage.
Reload ==
    /\ mounted
    /\ Construct
    /\ UNCHANGED <<mounted, edits>>

(***************************************************************************)
(* Inputs                                                                  *)
(***************************************************************************)
\* new Date(): the local calendar day on which Add Day is clicked.
TodayChoices == {[y |-> 2024, m |-> 2, d |-> 28]}

\* Well-formed YYYY-MM-DD texts entered in the Date field.
DateChoices == {yyyyMmDd([y |-> 2024, m |-> 2, d |-> 27]),
                yyyyMmDd([y |-> 9999, m |-> 12, d |-> 31])}

PlanChoices == {30, 100}
MacroChoices == MacroKey

(***************************************************************************)
(* Handlers of the main component                                          *)
(***************************************************************************)
\* A handler that leaves the draft form and the settings alone.
HistoryStep(h, dr, changed) ==
    /\ history' = h
    /\ draft' = dr
    /\ stored' = persistEffect(changed, stored, h, planDays, strictness, trackedMacros)
    /\ Render(h, dr, strictness)
    /\ UNCHANGED <<mounted, planDays, strictness, trackedMacros, edits>>

\* Mutant of resetAll: the draft is kept.
resetAllKeepsDraft ==
    /\ mounted
    /\ history' = <<>>
    /\ draft' = draft
    /\ planDays' = 100
    /\ strictness' = "Standard"
    /\ stored' = persistEffect(TRUE, NoItem, <<>>, 100, "Standard", trackedMacros)
    /\ Render(<<>>, draft, "Standard")
    /\ UNCHANGED <<mounted, trackedMacros, edits>>

resetAll ==
    /\ mounted
    /\ history' = <<>>
    /\ draft' = Null
    /\ planDays' = 100
    /\ strictness' = "Standard"
    \* localStorage.removeItem, then setHistory([]) is a new array: the
    \* persist effect runs after the render.
    /\ stored' = persistEffect(TRUE, NoItem, <<>>, 100, "Standard", trackedMacros)
    /\ Render(<<>>, Null, "Standard")
    /\ UNCHANGED <<mounted, trackedMacros, edits>>

addDay ==
    /\ mounted
    /\ Len(history) < MaxHistory
    /\ \E nextDate \in (IF Len(history) = 0
                        THEN {yyyyMmDd(t) : t \in TodayChoices}
                        ELSE addDaysOutcomes(history[Len(history)].date, 1)) :
          LET next == makeDefaultCheckin(nextDate)
          IN  HistoryStep(Append(history, next), next, TRUE)

\* Mutant of removeDay: the draft is not cleared.
removeDayKeepsDraft ==
    /\ mounted
    /\ LET next == IF Len(history) = 0 THEN history
                   ELSE SubSeq(history, 1, Len(history) - 1)
       IN  HistoryStep(next, draft, Len(history) # 0)

removeDay ==
    /\ mounted
    /\ LET next == IF Len(history) = 0 THEN history
                   ELSE SubSeq(history, 1, Len(history) - 1)
       IN  HistoryStep(next, Null, Len(history) # 0)

\* prev.some(...) ? prev.map(...) : [...prev, draft]
upsertByDate(prev, dr) ==
    IF \E i \in 1..Len(prev) : prev[i].date = dr.date
    THEN [i \in 1..Len(prev) |-> IF prev[i].date = dr.date THEN dr ELSE prev[i]]
    ELSE Append(prev, dr)

\* next.sort((a, b) => (a.date < b.date ? -1 : 1)).  The comparator never
\* answers 0, so for records of equal date the order is the engine's; every
\* outcome is a permutation in which no later record has a smaller date.
\* The place of list[i] when the dates are pairwise different: one more than
\* the number of records of smaller date.
rankByDate(list, i) ==
    1 + Cardinality({j \in 1..Len(list) : StrLess(list[j].date, list[i].date)})

sortOutcomes(list) ==
    IF \A i, j \in 1..Len(list) : i # j => list[i].date # list[j].date
    THEN {[k \in 1..Len(list) |->
              list[CHOOSE i \in 1..Len(list) : rankByDate(list, i) = k]]}
    ELSE {s \in {[i \in 1..Len(list) |-> list[f[i]]] : f \in Permutations(1..Len(list))} :
             \A i \in 1..Len(s) : \A j \in i..Len(s) : ~StrLess(s[j].date, s[i].date)}

saveCheckin ==
    /\ mounted
    /\ draft # Null
    /\ Len(upsertByDate(history, draft)) <= MaxHistory
    /\ \E next \in sortOutcomes(upsertByDate(history, draft)) :
          HistoryStep(next, draft, TRUE)

resetDraftToActive ==
    /\ mounted
    /\ draft # Null
    /\ active # Null
    /\ HistoryStep(history, active, FALSE)

\* The settings buttons.
SettingsStep(p, st, m, changed) ==
    /\ edits < MaxEdits
    /\ edits' = (IF changed THEN edits + 1 ELSE edits)
    /\ planDays' = p
    /\ strictness' = st
    /\ trackedMacros' = m
    /\ stored' = persistEffect(changed, stored, history, p, st, m)
    /\ Render(history, draft, st)
    /\ UNCHANGED <<mounted, history, draft>>

setPlanDays ==
    /\ mounted
    /\ \E v \in PlanChoices :
          SettingsStep(v, strictness, trackedMacros, v # planDays)

setStrictness ==
    /\ mounted
    /\ \E v \in Strictness :
          SettingsStep(planDays, v, trackedMacros, v # strictness)

setTrackedMacros ==
    /\ mounted
    /\ \E m \in MacroChoices :
          SettingsStep(planDays, strictness,
                       [trackedMacros EXCEPT ![m] = ~trackedMacros[m]], TRUE)

(***************************************************************************)
(* The check-in form                                                       *)
(***************************************************************************)
SleepHoursChoices == {62}
SleepQualityChoices == {4}
MoodChoices == {3}
EnergyChoices == {4}
NotesChoices == {"win"}
LabelChoices == {"tiktok"}
\* What is typed into a numeric field: nothing, something that is not a
\* number, or a number.
EmptyOrMalformedTexts == {"", "abc"}
CaffeineTexts == EmptyOrMalformedTexts \cup {"150"}
SocialTexts == EmptyOrMalformedTexts \cup {"45"}
MacroTexts == EmptyOrMalformedTexts \cup {"500"}

\* e.target.value of an <input type="number">: the text when it is a valid
\* floating-point number, otherwise "" (the value sanitization of the input).
inputNumberValue(typed) ==
    IF typed \in {"45", "150", "500"} THEN typed ELSE ""

\* Mutant of NumberOrZero: Number(text || 1).
NumberOrOne(text) ==
    CASE text = "" -> 1
      [] text = "45" -> 45
      [] text = "150" -> 150
      [] text = "500" -> 500

\* Number(text || 0)
NumberOrZero(text) ==
    CASE text = "" -> 0
      [] text = "45" -> 45
      [] text = "150" -> 150
      [] text = "500" -> 500

\* requireDraft(fn): setDraft(prev => prev ? fn(prev) : prev).  No dependency
\* of the persist effect changes.  An edit that brings a new value into the
\* form counts against MaxEdits; switching or removing a load item that is
\* already in the list, and emptying a numeric field, do not (they bring no
\* new value).
\* Mutant of setDraft: the edited record is also written into history.
setDraftWriteThrough(next) ==
    LET h == [i \in 1..Len(history) |->
                 IF history[i].date = draft.date THEN next ELSE history[i]]
    IN  /\ mounted
        /\ draft # Null
        /\ draft' = next
        /\ history' = h
        /\ stored' = persistEffect(TRUE, stored, h, planDays, strictness, trackedMacros)
        /\ Render(h, next, strictness)
        /\ UNCHANGED <<mounted, planDays, strictness, trackedMacros>>

setDraft(next) ==
    /\ mounted
    /\ draft # Null
    /\ draft' = next
    /\ Render(history, next, strictness)
    /\ UNCHANGED <<mounted, stored, history, planDays, strictness, trackedMacros>>

requireDraft(next) ==
    /\ edits < MaxEdits
    /\ edits' = edits + 1
    /\ setDraft(next)

\* onChange of a numeric field: Number(e.target.value || 0) goes into the
\* field.
typeNumber(field, typed) ==
    LET next == [draft EXCEPT ![field] = NumberOrZero(inputNumberValue(typed))]
    IN  IF inputNumberValue(typed) = ""
        THEN setDraft(next) /\ UNCHANGED edits
        ELSE requireDraft(next)

editDate ==
    \E v \in DateChoices : draft # Null /\ requireDraft([draft EXCEPT !.date = v])

editSleepHours ==
    \E v \in SleepHoursChoices : draft # Null /\ requireDraft([draft EXCEPT !.sleepHours = v])

editSleepQuality ==
    \E v \in SleepQualityChoices : draft # Null /\ requireDraft([draft EXCEPT !.sleepQuality = v])

editCaffeine ==
    \E t \in CaffeineTexts : draft # Null /\ typeNumber("caffeineMg", t)

editSocial ==
    \E t \in SocialTexts : draft # Null /\ typeNumber("socialMinutes", t)

editMood ==
    \E v \in MoodChoices : draft # Null /\ requireDraft([draft EXCEPT !.mood = v])

editEnergy ==
    \E v \in EnergyChoices : draft # Null /\ requireDraft([draft EXCEPT !.energy = v])

\* A Switch reports the value opposite to the one it shows.
toggleVirtue ==
    \E k \in CORE_VIRTUE_KEYS :
        draft # Null /\ requireDraft([draft EXCEPT !.virtues[k] = ~@])

\* ToggleListEditor.addItem with the text typed in the label field (trimmed,
\* not empty).
addItem ==
    \E label \in LabelChoices :
        /\ draft # Null
        /\ findToggle(draft.loadItems, label) = 0
        /\ requireDraft([draft EXCEPT !.loadItems =
               Append(@, [label |-> titleCase(label), value |-> FALSE])])

removeItem ==
    /\ draft # Null
    /\ \E i \in 1..Len(draft.loadItems) :
          setDraft([draft EXCEPT !.loadItems = removeToggle(@, draft.loadItems[i].label)])
    /\ UNCHANGED edits

toggleItem ==
    /\ draft # Null
    /\ \E i \in 1..Len(draft.loadItems) :
          setDraft([draft EXCEPT !.loadItems =
              upsertToggle(@, draft.loadItems[i].label, ~draft.loadItems[i].value)])
    /\ UNCHANGED edits

toggleWorkout ==
    draft # Null /\ requireDraft([draft EXCEPT !.workout = ~@])

toggleJunkFood ==
    draft # Null /\ requireDraft([draft EXCEPT !.junkFood = ~@])

\* The nutrition fields are rendered only for the tracked macros.
editCalories ==
    \E t \in MacroTexts :
        /\ draft # Null /\ trackedMacros.calories
        /\ typeNumber("calories", t)

editProtein ==
    \E t \in MacroTexts :
        /\ draft # Null /\ trackedMacros.protein
        /\ typeNumber("proteinG", t)

editCarbs ==
    \E t \in MacroTexts :
        /\ draft # Null /\ trackedMacros.carbs
        /\ typeNumber("carbsG", t)

editFat ==
    \E t \in MacroTexts :
        /\ draft # Null /\ trackedMacros.fat
        /\ typeNumber("fatG", t)

editNotes ==
    \E v \in NotesChoices : draft # Null /\ requireDraft([draft EXCEPT !.notes = v])

(***************************************************************************)
(* The application                                                         *)
(***************************************************************************)
Unmounted ==
    /\ mounted = FALSE
    /\ history = <<>>
    /\ planDays = 100
    /\ strictness = "Standard"
    /\ trackedMacros = DEFAULT_MACROS
    /\ draft = Null
    /\ dls = 0
    /\ nei = 50
    /\ tasks = <<>>
    /\ edits = 0

\* What an earlier session may have left in storage.
ALL_MACROS == [calories |-> TRUE, protein |-> TRUE, carbs |-> TRUE, fat |-> TRUE]

StoredChoices ==
    {NoItem, NotJson, JSONstringify(PersistedState(<<>>, 30, "Hard", ALL_MACROS))}

Init ==
    /\ Unmounted
    /\ stored \in StoredChoices

Next ==
    \/ Mount
    \/ Reload
    \/ resetAll
    \/ addDay
    \/ removeDay
    \/ saveCheckin
    \/ resetDraftToActive
    \/ setPlanDays
    \/ setStrictness
    \/ setTrackedMacros
    \/ editDate
    \/ editSleepHours
    \/ editSleepQuality
    \/ editCaffeine
    \/ editSocial
    \/ editMood
    \/ editEnergy
    \/ toggleVirtue
    \/ addItem
    \/ removeItem
    \/ toggleItem
    \/ toggleWorkout
    \/ toggleJunkFood
    \/ editCalories
    \/ editProtein
    \/ editCarbs
    \/ editFat
    \/ editNotes

Spec == Init /\ [][Next]_vars

(***************************************************************************)
(* Scoring a stored history                                                *)
(*                                                                         *)
(* The scoring functions are pure: they are applied by the first render to *)
(* the history an earlier session stored.  The stored histories below are  *)
(* the inputs: one-day histories over a range of check-ins (for the DLS of *)
(* the active day) and histories of up to MaxTrendLen days (for the NEI).  *)
(***************************************************************************)
FirstDay == yyyyMmDd(CHOOSE t \in TodayChoices : TRUE)

\* The dates of the days added one after the other from FirstDay.
RECURSIVE datesFrom(_, _)
datesFrom(first, n) ==
    IF n = 0 THEN <<>>
    ELSE IF n = 1 THEN <<first>>
    ELSE LET before == datesFrom(first, n - 1)
         IN  Append(before, addDays(before[n - 1], 1))

DayDates == datesFrom(FirstDay, Max2(MaxDayNumber, MaxTrendLen))

dateOfDay(i) == DayDates[i]

LoadLabels == <<"Tiktok", "Sugar", "Nicotine", "Gaming", "News", "Shorts", "Snacks">>

\* A list of n load items of which the first k are on.
loadList(n, k) ==
    [i \in 1..n |-> [label |-> IF i <= Len(LoadLabels) THEN LoadLabels[i] ELSE "Other",
                     value |-> i <= k]]

SocialInputs == {0, 5, 100, 110}
CaffeineInputs == {0, 10, 100, 450}
SleepInputs == {60, 74, 75}
VirtueInputs == [study : BOOLEAN, gym : BOOLEAN, meditate : BOOLEAN]
LoadInputs == {<<>>} \cup {loadList(MaxLoadItems, k) : k \in 0..MaxLoadItems}

checkinInput(s, c, j, w, v, sl, l) ==
    [makeDefaultCheckin(FirstDay) EXCEPT
        !.socialMinutes = s, !.caffeineMg = c, !.junkFood = j, !.workout = w,
        !.virtues = v, !.sleepHours = sl, !.loadItems = l]

\* Three kinds of day for the trend: a good day, a loaded day, a plain day.
TrendInputs ==
    {[makeDefaultCheckin(FirstDay) EXCEPT
         !.energy = 10, !.sleepHours = 80, !.virtues.study = TRUE],
     [makeDefaultCheckin(FirstDay) EXCEPT
         !.energy = 1, !.sleepHours = 70, !.loadItems = loadList(1, 1)],
     [makeDefaultCheckin(FirstDay) EXCEPT
         !.energy = 6, !.loadItems = loadList(1, 0)]}

datedHistory(days) == [i \in 1..Len(days) |-> [days[i] EXCEPT !.date = dateOfDay(i)]]

storedHistory(h) == JSONstringify(PersistedState(h, 100, "Standard", DEFAULT_MACROS))

ScoreInit ==
    /\ Unmounted
    /\ \/ \E s \in SocialInputs, c \in CaffeineInputs, j \in BOOLEAN, w \in BOOLEAN,
              v \in VirtueInputs, sl \in SleepInputs, l \in LoadInputs :
             stored = storedHistory(<<checkinInput(s, c, j, w, v, sl, l)>>)
       \/ \E n \in 0..MaxTrendLen : \E days \in [1..n -> TrendInputs] :
             stored = storedHistory(datedHistory(days))

ScoreNext == Mount

ScoreSpec == ScoreInit /\ [][ScoreNext]_vars

(***************************************************************************)
(* Coaching a stored history                                               *)
(*                                                                         *)
(* The inputs of coachTasks are the active check-in, the number of days in *)
(* the history and the strictness setting, as an earlier session stored    *)
(* them: histories of 1..MaxDayNumber days whose last day ranges over the  *)
(* values the decision table distinguishes.                                *)
(***************************************************************************)
coachInput(sl, c, s, l) ==
    [makeDefaultCheckin(FirstDay) EXCEPT
        !.sleepHours = sl, !.caffeineMg = c, !.socialMinutes = s, !.loadItems = l]

CoachSleepInputs == {69, 70}
CoachCaffeineInputs == {200, 201, 450}
CoachSocialInputs == {0, 110}
CoachLoadInputs == {<<>>, loadList(1, 0), loadList(1, 1), loadList(5, 5)}

coachHistory(n, last) ==
    datedHistory([i \in 1..n |-> IF i = n THEN last ELSE makeDefaultCheckin(FirstDay)])

CoachInit ==
    /\ Unmounted
    /\ \E n \in 1..MaxDayNumber, st \in Strictness, sl \in CoachSleepInputs,
          c \in CoachCaffeineInputs, s \in CoachSocialInputs, l \in CoachLoadInputs :
          stored = JSONstringify(PersistedState(coachHistory(n, coachInput(sl, c, s, l)),
                                                100, st, DEFAULT_MACROS))

CoachNext == Mount

CoachSpec == CoachInit /\ [][CoachNext]_vars

(***************************************************************************)
(* Properties                                                              *)
(***************************************************************************)

\* C1: for every valid check-in record and every history of such records,
\* computeDLS and computeNEI return an integer between 0 and 100.
C1_ScoresInRange ==
    mounted =>
        /\ dls \in 0..100
        /\ nei \in 0..100
        /\ \A i \in 1..Len(history) : computeDLS(history[i]) \in 0..100

\* A week of good days: the unclamped index is 111.
C1_Witness ==
    /\ mounted
    /\ Len(history) >= 7
    /\ \A i \in 1..Len(history) : history[i].energy = 10
    /\ nei = 100

\* C2: computeDLS never falls when socialMinutes or caffeineMg is raised,
\* junkFood is turned on or one more load item is turned on, and never rises
\* when one more virtue or workout is turned on or sleepHours goes from below
\* 7.5 to at least 7.5, the other fields being fixed.
C2_Monotone ==
    (mounted /\ Len(history) = 1) =>
        LET d == history[1]
        IN  /\ \A v \in SocialInputs :
                 v >= d.socialMinutes => computeDLS([d EXCEPT !.socialMinutes = v]) >= dls
            /\ \A v \in CaffeineInputs :
                 v >= d.caffeineMg => computeDLS([d EXCEPT !.caffeineMg = v]) >= dls
            /\ computeDLS([d EXCEPT !.junkFood = TRUE]) >= dls
            /\ \A i \in 1..Len(d.loadItems) :
                 ~d.loadItems[i].value =>
                     computeDLS([d EXCEPT !.loadItems[i].value = TRUE]) >= dls
            /\ \A k \in CORE_VIRTUE_KEYS :
                 ~d.virtues[k] => computeDLS([d EXCEPT !.virtues[k] = TRUE]) <= dls
            /\ computeDLS([d EXCEPT !.workout = TRUE]) <= dls
            /\ \A v \in SleepInputs :
                 (d.sleepHours < 75 /\ v >= 75) =>
                     computeDLS([d EXCEPT !.sleepHours = v]) <= dls

\* A day whose score moves both ways: a virtue lowers it, a load item raises it.
C2_Witness ==
    /\ mounted
    /\ Len(history) = 1
    /\ ~history[1].virtues.gym
    /\ computeDLS([history[1] EXCEPT !.virtues.gym = TRUE]) < dls
    /\ Len(history[1].loadItems) > 0
    /\ ~history[1].loadItems[Len(history[1].loadItems)].value
    /\ computeDLS([history[1] EXCEPT
           !.loadItems[Len(history[1].loadItems)].value = TRUE]) > dls

\* The records of h whose date is date.
C3_At(h, date) == {i \in 1..Len(h) : h[i].date = date}

\* C3: saveCheckin with a draft whose date is already in history replaces
\* that record: the number of records stays, exactly one record has the
\* draft's date and it is the draft, the records of other dates are
\* unchanged, and history is sorted ascending by date.
C3_SaveReplaces ==
    [][(saveCheckin /\ C3_At(history, draft.date) # {}) =>
           /\ Len(history') = Len(history)
           /\ Cardinality(C3_At(history', draft.date)) = 1
           /\ \A i \in C3_At(history', draft.date) : history'[i] = draft
           /\ \A i \in 1..Len(history) :
                  history[i].date # draft.date =>
                      Cardinality({j \in 1..Len(history') : history'[j] = history[i]})
                          = Cardinality({j \in 1..Len(history) : history[j] = history[i]})
           /\ \A i \in 1..Len(history') : \A j \in i..Len(history') :
                  ~StrLess(history'[j].date, history'[i].date)]_vars

\* C4: from an empty history, after any sequence of addDay, removeDay, draft
\* edits, saveCheckin and resetAll, history is sorted strictly ascending by
\* date, so no two records have the same date.
C4_SortedStrictly ==
    mounted =>
        \A i \in 1..Len(history) : \A j \in (i + 1)..Len(history) :
            StrLess(history[i].date, history[j].date)

\* The formula of C5, in twentieths of a point: S = min(30, socialMinutes/10*3),
\* C = min(20, caffeineMg/50*2.5), J, L = min(30, 6 * load items on),
\* V = min(12, 3 * virtues on), W, G, rounded to the nearest integer and
\* clamped to 0..100.
C5_Formula(d) ==
    LET S == IF 6 * d.socialMinutes < 600 THEN 6 * d.socialMinutes ELSE 600
        C == IF d.caffeineMg < 400 THEN d.caffeineMg ELSE 400
        J == IF d.junkFood THEN 200 ELSE 0
        nLoad == Cardinality({i \in 1..Len(d.loadItems) : d.loadItems[i].value})
        L == IF 6 * nLoad < 30 THEN 120 * nLoad ELSE 600
        nVirtue == Cardinality({k \in CORE_VIRTUE_KEYS : d.virtues[k]})
        V == IF 3 * nVirtue < 12 THEN 60 * nVirtue ELSE 240
        W == IF d.workout THEN 200 ELSE 0
        G == IF d.sleepHours >= 75 THEN 200 ELSE 0
        rounded == (S + C + J + L - V - W - G + 10) \div 20
    IN  IF rounded < 0 THEN 0 ELSE IF rounded > 100 THEN 100 ELSE rounded

C5_Example(d) ==
    /\ d.socialMinutes = 100 /\ d.caffeineMg = 100 /\ d.junkFood
    /\ \A i \in 1..Len(d.loadItems) : ~d.loadItems[i].value
    /\ \A k \in CORE_VIRTUE_KEYS : ~d.virtues[k]
    /\ ~d.workout /\ d.sleepHours = 60

RECURSIVE C6_Total(_, _, _)
C6_Total(h, W, field) ==
    IF W = {} THEN 0
    ELSE LET i == CHOOSE x \in W : TRUE
         IN  h[i][field] + C6_Total(h, W \ {i}, field)

C6_Formula(h) ==
    LET W == {i \in 1..Len(h) : i > Len(h) - 7}
        n == Cardinality(W)
        sleepBonus == IF C6_Total(h, W, "sleepHours") >= 75 * n THEN 5 ELSE 0
        loadDays == Cardinality({i \in W : \E k \in 1..Len(h[i].loadItems) :
                                               h[i].loadItems[k].value})
        virtueDays == Cardinality({i \in W : \E k \in CORE_VIRTUE_KEYS : h[i].virtues[k]})
        loadPenalty == IF loadDays >= 3 THEN 8 ELSE 0
        virtueBonus == IF virtueDays >= 4 THEN 6 ELSE 0
        \* round(10 * total / n + bonus) = floor((20 * total + 2 * n * bonus + n) / (2 * n))
        rounded == (20 * C6_Total(h, W, "energy")
                    + 2 * n * (sleepBonus - loadPenalty + virtueBonus) + n) \div (2 * n)
    IN  IF n = 0 THEN 50
        ELSE IF rounded < 0 THEN 0 ELSE IF rounded > 100 THEN 100 ELSE rounded

\* C6: computeNEI is 50 for an empty history and otherwise the rounded,
\* clamped score of the last 7 records; older records do not change it.
C6_NEIFormula ==
    mounted =>
        /\ nei = C6_Formula(history)
        /\ history = <<>> => nei = 50
        /\ Len(history) > 7 =>
               nei = computeNEI(SubSeq(history, Len(history) - 6, Len(history)))

\* Eight days of which the oldest is a loaded day and would make a third.
C6_Witness ==
    /\ mounted
    /\ Len(history) = 8
    /\ someOn(history[1].loadItems)
    /\ Cardinality({i \in 2..8 : someOn(history[i].loadItems)}) = 2
    /\ nei = C6_Formula(SubSeq(history, 2, 8))
    /\ nei # C6_Formula(SubSeq(history, 1, 7))

\* C7: coachTasks returns exactly three tasks, of level Easy, Medium and
\* Hard in that order.
C7_ThreeTasks ==
    (mounted /\ history # <<>>) =>
        /\ Len(tasks) = 3
        /\ tasks[1].level = "Easy"
        /\ tasks[2].level = "Medium"
        /\ tasks[3].level = "Hard"

C7_Witness ==
    /\ mounted
    /\ history # <<>>
    /\ active.sleepHours < 70
    /\ active.caffeineMg > 200
    /\ someOn(active.loadItems)
    /\ Len(tasks) = 3

\* C8: the Easy task is decided by the number of records in history alone:
\* up to 10 the early task, 11 to 40 the mid task, above 40 the late task.
C8_EasyByDayIndex ==
    (mounted /\ history # <<>>) =>
        /\ Len(tasks) >= 1
        /\ tasks[1] = (IF Len(history) <= 10 THEN EasyEarly
                       ELSE IF Len(history) <= 40 THEN EasyMid
                       ELSE EasyLate)

C8_Witness ==
    /\ mounted
    /\ Len(history) = 40
    /\ strictness = "Hard"
    /\ active.sleepHours < 70
    /\ tasks[1] = EasyMid

\* C9: in Hard mode, with no load item on and a DLS of at most 70, the Hard
\* task is the environment-control suggestion on every day; in Light and
\* Standard mode it never is.
C9_HardMode ==
    (mounted /\ history # <<>>) =>
        /\ (/\ strictness = "Hard"
            /\ \A i \in 1..Len(active.loadItems) : ~active.loadItems[i].value
            /\ dls <= 70)
           => (Len(tasks) = 3 /\ tasks[3] = HardEnvironment)
        /\ strictness \in {"Light", "Standard"} =>
               \A i \in 1..Len(tasks) : tasks[i] # HardEnvironment

C9_Witness ==
    /\ mounted
    /\ Len(history) > 40
    /\ strictness = "Hard"
    /\ tasks[3] = HardEnvironment

\* C10: after every user operation and the persistence write it triggers,
\* the stored blob is the in-memory {history, planDays, strictness,
\* trackedMacros}; it is never missing.
C10_StorageMirrors ==
    mounted =>
        stored = JSONstringify(PersistedState(history, planDays, strictness, trackedMacros))

C10_Witness ==
    /\ mounted
    /\ Len(history) = 2
    /\ strictness = "Light"
    /\ stored.present
    /\ stored.value.strictness = "Light"
    /\ Len(stored.value.history) = 2

\* The stored value is absent or is not JSON.
C11_Unparseable == ~stored.present \/ ~stored.json

\* C11: when the stored value is absent or not parseable as JSON, start-up
\* does not fail and the initial state is the default one: empty history,
\* planDays 100, strictness "Standard", calories and protein tracked, carbs
\* and fat not, no draft.
C11_DefaultsOnBadStorage ==
    /\ [](~mounted => ENABLED Mount)
    /\ [][((Mount \/ Reload) /\ C11_Unparseable) =>
             /\ mounted'
             /\ history' = <<>>
             /\ planDays' = 100
             /\ strictness' = "Standard"
             /\ trackedMacros' = [calories |-> TRUE, protein |-> TRUE,
                                  carbs |-> FALSE, fat |-> FALSE]
             /\ draft' = Null]_vars

\* The state right after a start-up that found nothing usable in storage.
C11_Witness ==
    /\ mounted
    /\ edits = 0
    /\ history = <<>>
    /\ draft = Null
    /\ planDays = 100
    /\ strictness = "Standard"
    /\ ~trackedMacros.carbs /\ ~trackedMacros.fat
    /\ stored.present /\ stored.json

\* An edit of the check-in form.
C12_DraftEdit ==
    \/ editDate \/ editSleepHours \/ editSleepQuality \/ editCaffeine \/ editSocial
    \/ editMood \/ editEnergy \/ toggleVirtue \/ addItem \/ removeItem \/ toggleItem
    \/ toggleWorkout \/ toggleJunkFood \/ editCalories \/ editProtein \/ editCarbs
    \/ editFat \/ editNotes

\* C12: an edit of the draft leaves history, the stored blob and the NEI
\* unchanged; a record enters history only as the draft saved by saveCheckin
\* (or as the default record of addDay).
C12_DraftEditsLocal ==
    /\ [][C12_DraftEdit => (history' = history /\ stored' = stored /\ nei' = nei)]_vars
    /\ [][\A i \in 1..Len(history') :
              (\A j \in 1..Len(history) : history[j] # history'[i]) =>
                  \/ saveCheckin /\ history'[i] = draft
                  \/ history'[i] = makeDefaultCheckin(history'[i].date)]_vars

\* An edited draft next to its unedited record in history and in storage.
C12_Witness ==
    /\ mounted
    /\ draft # Null
    /\ edits > 0
    /\ \E i \in 1..Len(history) : history[i].date = draft.date /\ history[i] # draft
    /\ stored.value.history = history

\* The fields of a check-in record.
C13_CheckinFields ==
    {"date", "loadItems", "virtues", "sleepHours", "sleepQuality", "caffeineMg",
     "socialMinutes", "workout", "mood", "energy", "junkFood", "notes",
     "calories", "proteinG", "carbsG", "fatG"}

\* C13: the stored blob always has exactly four parts: the history array, the
\* planDays integer, the strictness (Light, Standard or Hard) and the mapping
\* of the four macro names to booleans; no DLS, NEI, coach task or draft.
C13_BlobShape ==
    mounted =>
        /\ stored.present /\ stored.json
        /\ DOMAIN stored.value = {"history", "planDays", "strictness", "trackedMacros"}
        /\ DOMAIN stored.value.history = 1..Len(stored.value.history)
        /\ \A i \in 1..Len(stored.value.history) :
               DOMAIN stored.value.history[i] = C13_CheckinFields
        /\ stored.value.planDays \in Int
        /\ stored.value.strictness \in {"Light", "Standard", "Hard"}
        /\ DOMAIN stored.value.trackedMacros = {"calories", "protein", "carbs", "fat"}
        /\ \A m \in DOMAIN stored.value.trackedMacros :
               stored.value.trackedMacros[m] \in BOOLEAN

\* A draft, a positive DLS and coach tasks exist, and the blob holds a record.
C13_Witness ==
    /\ mounted
    /\ draft # Null
    /\ dls > 0
    /\ tasks # <<>>
    /\ stored.present
    /\ Len(stored.value.history) > 0

\* The numeric fields of a check-in, and those typed as text.
C14_NumericFields ==
    {"sleepHours", "sleepQuality", "caffeineMg", "socialMinutes", "mood", "energy",
     "calories", "proteinG", "carbsG", "fatG"}

C14_TextFields ==
    {"caffeineMg", "socialMinutes", "calories", "proteinG", "carbsG", "fatG"}

C14_AllNumbers(r) == \A f \in C14_NumericFields : r[f] \in Int

\* C14: an empty or malformed entry in a numeric text field sets that draft
\* field to 0; every numeric field of the draft and of every saved record is
\* a number, and so are the scores.
C14_NumericCoercion ==
    /\ [](mounted =>
             /\ draft # Null => C14_AllNumbers(draft)
             /\ \A i \in 1..Len(history) : C14_AllNumbers(history[i])
             /\ dls \in Int
             /\ nei \in Int)
    /\ [][\A f \in C14_TextFields : \A t \in {"", "abc"} :
              (draft # Null /\ typeNumber(f, t)) => draft'[f] = 0]_vars

\* A field that was saved with a value and has then been emptied in the form.
C14_Witness ==
    /\ mounted
    /\ draft # Null
    /\ draft.caffeineMg = 0
    /\ \E i \in 1..Len(history) :
           history[i].date = draft.date /\ history[i].caffeineMg > 0

\* The state a first start-up begins from.
C15_Defaults ==
    [history |-> <<>>, planDays |-> 100, strictness |-> "Standard",
     trackedMacros |-> [calories |-> TRUE, protein |-> TRUE,
                        carbs |-> FALSE, fat |-> FALSE]]

\* C15: after resetAll the history is empty, the draft is null, planDays is
\* 100, strictness is "Standard" and trackedMacros is the default mapping,
\* and a reload after the reset starts from that default state.
C15_ResetAllResets ==
    [][resetAll =>
           /\ history' = C15_Defaults.history
           /\ draft' = Null
           /\ planDays' = C15_Defaults.planDays
           /\ strictness' = C15_Defaults.strictness
           /\ trackedMacros' = C15_Defaults.trackedMacros
           /\ initial(stored') = C15_Defaults]_vars

\* history holds a record with the date of the draft.
C16_Linked ==
    /\ draft # Null
    /\ \E i \in 1..Len(history) : history[i].date = draft.date

\* C16 as stated: whenever the draft is non-null, history contains a record
\* whose date equals the draft's date.
C16_DraftInHistory == (mounted /\ draft # Null) => C16_Linked

\* C16 as amended: whenever the draft is non-null history is not empty;
\* right after addDay and after saveCheckin history holds a record with the
\* draft's date; and while the draft stays non-null only an edit of its Date
\* field ends that.
C16_DraftLinkedUntilDateEdit ==
    /\ []((mounted /\ draft # Null) => history # <<>>)
    /\ [][(addDay \/ saveCheckin) => C16_Linked']_vars
    /\ [][(C16_Linked /\ draft' # Null /\ ~editDate) => C16_Linked']_vars

\* A draft whose date was changed and which has been saved under it.
C16_Witness ==
    /\ mounted
    /\ C16_Linked
    /\ draft.date = yyyyMmDd([y |-> 2024, m |-> 2, d |-> 27])
    /\ Len(history) = 2

\* The calendar day a date text names, as a number that grows with the day
\* (texts that name no day are compared as strings).
C17_IsDay(s) == IsIsoDate(s) \/ IsLongYearDate(s)

C17_DayKey(s) ==
    LET dt == IF IsIsoDate(s) THEN ParseLocalDate(s) ELSE ParseLongYearDate(s)
    IN  dt.y * 10000 + dt.m * 100 + dt.d

C17_NotAfter(a, b) ==
    IF C17_IsDay(a) /\ C17_IsDay(b) THEN C17_DayKey(a) <= C17_DayKey(b)
    ELSE ~StrLess(b, a)

\* C17: removeDay on a non-empty history removes exactly the last record,
\* which is the one with the greatest date, keeps the other records and their
\* order, and sets the draft to null; an empty history stays empty; planDays,
\* strictness and trackedMacros are unchanged.
C17_RemoveDay ==
    [][removeDay =>
           /\ history # <<>> =>
                  /\ history' = SubSeq(history, 1, Len(history) - 1)
                  /\ \A i \in 1..Len(history) :
                         C17_NotAfter(history[i].date, history[Len(history)].date)
                  /\ draft' = Null
           /\ history = <<>> => history' = <<>>
           /\ UNCHANGED <<planDays, strictness, trackedMacros>>]_vars

\* The default field values of a new record.
C18_IsDefault(r) ==
    /\ r.loadItems = <<>>
    /\ r.virtues = [study |-> FALSE, gym |-> FALSE, meditate |-> FALSE]
    /\ r.sleepHours = 75 /\ r.sleepQuality = 7
    /\ r.caffeineMg = 0 /\ r.socialMinutes = 0
    /\ ~r.workout /\ r.mood = 7 /\ r.energy = 7 /\ ~r.junkFood
    /\ r.notes = ""
    /\ r.calories = 0 /\ r.proteinG = 0 /\ r.carbsG = 0 /\ r.fatG = 0

C18_Day(s) == IF IsIsoDate(s) THEN ParseLocalDate(s) ELSE ParseLongYearDate(s)

\* The calendar day after dt.
C18_DayAfter(dt) ==
    IF dt.d < DaysInMonth(dt.y, dt.m) THEN [dt EXCEPT !.d = dt.d + 1]
    ELSE IF dt.m < 12 THEN [y |-> dt.y, m |-> dt.m + 1, d |-> 1]
    ELSE [y |-> dt.y + 1, m |-> 1, d |-> 1]

\* C18: addDay appends exactly one record with the default field values,
\* dated one calendar day after the last record of history (today when
\* history is empty), leaves the existing records unchanged and makes the new
\* record the draft; unsaved edits of the previous draft do not enter history.
C18_AddDay ==
    [][addDay =>
           /\ Len(history') = Len(history) + 1
           /\ SubSeq(history', 1, Len(history)) = history
           /\ C18_IsDefault(history'[Len(history')])
           /\ draft' = history'[Len(history')]
           /\ history = <<>> =>
                  \E t \in TodayChoices : history'[Len(history')].date = yyyyMmDd(t)
           /\ (history # <<>> /\ C17_IsDay(history[Len(history)].date)) =>
                  /\ C17_IsDay(history'[Len(history')].date)
                  /\ C18_Day(history'[Len(history')].date)
                         = C18_DayAfter(C18_Day(history[Len(history)].date))]_vars

\* C19: the Medium task is the first match of: sleepHours < 7 -> lights-out
\* (also when caffeineMg > 200); caffeineMg > 200 -> caffeine cap; otherwise
\* light movement, which is the task at sleepHours = 7 with caffeineMg = 200.
\* The day index and the strictness have no part in it.
C19_MediumByFirstMatch ==
    (mounted /\ history # <<>>) =>
        /\ Len(tasks) >= 2
        /\ active.sleepHours < 70 => tasks[2] = MediumSleep
        /\ (active.sleepHours >= 70 /\ active.caffeineMg > 200) =>
               tasks[2] = MediumCaffeine
        /\ (active.sleepHours >= 70 /\ active.caffeineMg <= 200) =>
               tasks[2] = MediumMove
        /\ (active.sleepHours = 70 /\ active.caffeineMg = 200) =>
               tasks[2].text = "2-3 sets of light movement (push-ups or squats)."

C19_Witness ==
    /\ mounted
    /\ history # <<>>
    /\ active.sleepHours < 70
    /\ active.caffeineMg > 200
    /\ strictness = "Hard"
    /\ Len(history) > 40
    /\ tasks[2] = MediumSleep

C20_NoLoadOn == \A i \in 1..Len(active.loadItems) : ~active.loadItems[i].value

\* C20: the Hard task is the first match of: DLS > 70, any load item on,
\* strictness "Hard", day index > 40, default. So with a load item on the
\* strictness and the day index do not matter, and the late-phase task is
\* returned only when day index > 40, strictness is not "Hard" and no load
\* item is on.
C20_HardByFirstMatch ==
    (mounted /\ history # <<>>) =>
        /\ Len(tasks) = 3
        /\ dls > 70 => tasks[3] = HardDetox
        /\ (dls <= 70 /\ ~C20_NoLoadOn) => tasks[3] = HardRecovery
        /\ (dls <= 70 /\ C20_NoLoadOn /\ strictness = "Hard") =>
               tasks[3] = HardEnvironment
        /\ (dls <= 70 /\ C20_NoLoadOn /\ strictness # "Hard" /\ Len(history) > 40) =>
               tasks[3] = HardLate
        /\ (dls <= 70 /\ C20_NoLoadOn /\ strictness # "Hard" /\ Len(history) <= 40) =>
               tasks[3] = HardDefault
        /\ ~C20_NoLoadOn => tasks[3] \in {HardDetox, HardRecovery}
        /\ tasks[3] = HardLate =>
               (Len(history) > 40 /\ strictness # "Hard" /\ C20_NoLoadOn)

C20_Witness ==
    /\ mounted
    /\ ~C20_NoLoadOn
    /\ dls > 70
    /\ strictness = "Hard"
    /\ Len(history) > 40
    /\ tasks[3] = HardDetox

C21_LoadOn(d) == Cardinality({i \in 1..Len(d.loadItems) : d.loadItems[i].value})

\* The score of d without the upper clamp: rounded, and raised to 0 only.
C21_NoUpperClamp(d) ==
    LET S == IF 6 * d.socialMinutes < 600 THEN 6 * d.socialMinutes ELSE 600
        C == IF d.caffeineMg < 400 THEN d.caffeineMg ELSE 400
        J == IF d.junkFood THEN 200 ELSE 0
        L == IF 6 * C21_LoadOn(d) < 30 THEN 120 * C21_LoadOn(d) ELSE 600
        nVirtue == Cardinality({k \in CORE_VIRTUE_KEYS : d.virtues[k]})
        V == IF 3 * nVirtue < 12 THEN 60 * nVirtue ELSE 240
        W == IF d.workout THEN 200 ELSE 0
        G == IF d.sleepHours >= 75 THEN 200 ELSE 0
        rounded == (S + C + J + L - V - W - G + 10) \div 20
    IN  IF rounded < 0 THEN 0 ELSE rounded

\* C21: computeDLS is at most 90, and at most 60 when no load item is on; so
\* the DLS > 70 Hard task (full evening detox) is returned only for check-ins
\* with at least two load items on, and the upper clamp at 100 never changes
\* the result.
C21_DLSBounds ==
    (mounted /\ history # <<>>) =>
        /\ dls <= 90
        /\ C21_LoadOn(active) = 0 => dls <= 60
        /\ dls > 70 => C21_LoadOn(active) >= 2
        /\ \A i \in 1..Len(tasks) : tasks[i] = HardDetox => C21_LoadOn(active) >= 2
        /\ dls = C21_NoUpperClamp(active)

C21_Witness ==
    /\ mounted
    /\ history # <<>>
    /\ C21_LoadOn(active) = 2
    /\ dls > 70
    /\ tasks[3] = HardDetox

\* C22: in every reachable state the active day is null exactly when history
\* is empty, and a non-null draft implies a non-empty history; so the task
\* list is empty exactly when history is empty, and the day index given to
\* coachTasks is the number of records in history, never the fallback 1.
C22_ActiveIffHistory ==
    mounted =>
        /\ (active = Null) <=> (history = <<>>)
        /\ draft # Null => history # <<>>
        /\ (tasks = <<>>) <=> (history = <<>>)
        /\ history # <<>> => tasks = coachTasks(active, Len(history), strictness)
        /\ active # Null => Len(history) >= 1

C22_Witness ==
    /\ mounted
    /\ edits > 0
    /\ history = <<>>
    /\ draft = Null
    /\ active = Null
    /\ tasks = <<>>

\* The draft is the record history stores for the draft's date, when there is
\* one.
C23_DraftIsStored(h, dr) ==
    (\E i \in 1..Len(h) : h[i].date = dr.date) =>
        \E i \in 1..Len(h) : h[i].date = dr.date /\ dr = h[i]

\* C23: resetDraftToActive discards the unsaved edits: after it runs the
\* draft equals the record history stores for the day being edited, and
\* history is unchanged.  No run of the handler ends otherwise.
C23_ResetDiscardsEdits ==
    ~ ENABLED (/\ resetDraftToActive
               /\ ~(history' = history /\ C23_DraftIsStored(history', draft')))

====
